---- MODULE Spec2Model ----
(***************************************************************************)
(* Model of bot.py: the /generate command handler of the monster bot.      *)
(*                                                                         *)
(* Each in-flight update is one run of generate_command.  A run is a       *)
(* coroutine on the event loop; its generate() closure runs on a worker    *)
(* thread of the default executor while the coroutine awaits it.  The      *)
(* steps of different runs interleave freely.  Every call of the Telegram  *)
(* API (reply_text, reply_photo, delete_message) and of the two Gemini     *)
(* models either returns or raises; the outcome is chosen by the           *)
(* environment.                                                            *)
(*                                                                         *)
(* Texts are sequences of string tokens, so that f-strings are             *)
(* concatenations and str.strip() really removes something.  The emoji    *)
(* and the backquotes of the literal texts are left out of the tokens.     *)
(*                                                                         *)
(* Exceptions are the ones "except Exception" catches.  events is a        *)
(* history variable: the external calls of each update, in program order.  *)
(***************************************************************************)
EXTENDS Integers, Sequences, FiniteSets, TLC

\* ------------------------------------------------------------------ bounds
\* largest number of positional arguments of a /generate command
MaxArgs == 3

\* the updates handled concurrently
Updates == { "u1", "u2" }

\* ------------------------------------------------------- inputs and faults
\* the monsters users ask for: (name, element, rarity, further arguments...)
Monsters ==
    { <<"Pyro", "Fire", "Epic">>, <<"Aqua", "Water", "Sacred">> }

\* context.args of an update: the first k tokens a user typed
ArgLists ==
    { [i \in 1..k |-> IF i <= 3 THEN m[i] ELSE "extra"] :
        m \in Monsters, k \in 0..MaxArgs }

\* the chats updates arrive from
Chats == { "chatA", "chatB" }

\* the chat an update may come from: by symmetry the first update's chat is
\* fixed, the other one shares it or not
ChatsOf(u) == IF u = "u1" THEN { "chatA" } ELSE Chats

\* str(e) of the exceptions the environment can raise
TextFaults == { "timeout" }
ImageFaults == { "quota" }
\* where the image step can raise: the call, parts[0].image, img.save
ImageFaultSites == { "L65", "L66", "L68" }
SendFaults == { "BadRequest" }
DeleteFaults == { "Message to delete not found" }

Whitespace == { " ", "\n" }

\* the paddings a model response may carry around its payload
Paddings == { <<>>, <<"\n", " ">> }

\* ------------------------------------------------------------ python values
NoImage == [kind |-> "None", prompt |-> <<>>, pos |-> 0]

NoException == [site |-> "none", detail |-> ""]

VARIABLES
    pc,          \* where each run of generate_command stands
    args,        \* context.args of the update
    chat_id,     \* update.effective_chat.id
    status_msg,  \* status_msg.message_id, 0 before it is assigned
    stats_text,  \* local of generate() / generate_command
    img_bytes,   \* local of generate() / generate_command
    caught,      \* the exception e bound by "except Exception as e" (line 101)
    escaped,     \* the exception that left generate_command, if any
    events,      \* per update: the external calls made, in program order
    chat,        \* the messages standing in the chats
    next_id      \* per chat: the next message_id Telegram assigns

vars == << pc, args, chat_id, status_msg, stats_text, img_bytes, caught,
           escaped, events, chat, next_id >>

\* ------------------------------------------------------------ text helpers
SYSTEM_PROMPT == "SYSTEM_PROMPT"

\* line 55: the f-string that builds the text prompt
Prompt(name, element, rarity) ==
    << SYSTEM_PROMPT, "\n\nUSER INPUT -> Name: ", name,
       ", Element: ", element, ", Rarity: ", rarity >>

\* line 64: the f-string that builds the image prompt
ImagePrompt(name, element) ==
    << "Generate a image of ", element, " ", name,
       " monster, Quality - 4k, Ratio - 1:1" >>

\* what TEXT_MODEL answers to a prompt: the monster's sheet, possibly padded
Payload(prompt) ==
    << "Name: ", prompt[3], "\nElement: ", prompt[5], "\nRarity: ", prompt[7] >>

ResponseText(prompt, pad) == pad \o Payload(prompt) \o pad

RECURSIVE LStrip(_)
LStrip(s) ==
    IF s # <<>> /\ Head(s) \in Whitespace THEN LStrip(Tail(s)) ELSE s

RECURSIVE RStrip(_)
RStrip(s) ==
    IF s # <<>> /\ s[Len(s)] \in Whitespace
    THEN RStrip(SubSeq(s, 1, Len(s) - 1))
    ELSE s

\* str.strip() of line 58
Strip(s) == RStrip(LStrip(s))

\* mutant of ErrorText: the detail of the exception is dropped
ErrorText_NoDetail(e) == << "Error generating text" >>

\* line 60
ErrorText(e) == << "Error generating text: ", e >>

\* line 91
StatusText(name) == << "Summoning ", name, "..." >>

\* line 87
UsageText == << "Usage: /generate [Name] [Element] [Rarity]" >>

\* line 102
CriticalText(e) == << "Critical Error: ", e >>

\* lines 67-70: the PNG of the image, in a buffer rewound to its start
BytesIO(img_prompt) == [kind |-> "BytesIO", prompt |-> img_prompt, pos |-> 0]

\* line 90
Name(u) == args[u][1]
Element(u) == args[u][2]
Rarity(u) == args[u][3]

\* mutant of TooFewArgs: the bound is off by one
TooFewArgs_OffByOne(a) == a = <<>> \/ Len(a) < 2

\* line 86: "not context.args or len(context.args) < 3"
TooFewArgs(a) == a = <<>> \/ Len(a) < 3

\* --------------------------------------------------------- external calls
\* one external call: the line that makes it, what it was given, whether it
\* returned (ok) or raised (err is then str(e)), and the message_id involved
Event(line, op, text, photo, ok, err, id, c) ==
    [line |-> line, op |-> op, text |-> text, photo |-> photo, ok |-> ok,
     err |-> err, id |-> id, chat_id |-> c]

Log(u, e) == events' = [events EXCEPT ![u] = Append(@, e)]

\* update.message.reply_text / reply_photo returning the sent message
SendOk(u, line, op, text, photo) ==
    LET c == chat_id[u]
        id == next_id[c]
    IN  /\ chat' = chat \cup
                { [chat_id |-> c, message_id |-> id, text |-> text, photo |-> photo] }
        /\ next_id' = [next_id EXCEPT ![c] = id + 1]
        /\ Log(u, Event(line, op, text, photo, TRUE, "", id, c))

\* update.message.reply_text / reply_photo raising
SendFail(u, line, op, text, photo, d) ==
    /\ Log(u, Event(line, op, text, photo, FALSE, d, 0, chat_id[u]))
    /\ UNCHANGED << chat, next_id >>

Raise(u, site, detail) ==
    /\ pc' = [pc EXCEPT ![u] = "raised"]
    /\ escaped' = [escaped EXCEPT ![u] = [site |-> site, detail |-> detail]]

\* ------------------------------------------------------------------- state
Init ==
    /\ pc = [u \in Updates |-> "idle"]
    /\ args = [u \in Updates |-> <<>>]
    /\ chat_id = [u \in Updates |-> "chatA"]
    /\ status_msg = [u \in Updates |-> 0]
    /\ stats_text = [u \in Updates |-> <<>>]
    /\ img_bytes = [u \in Updates |-> NoImage]
    /\ caught = [u \in Updates |-> NoException]
    /\ escaped = [u \in Updates |-> NoException]
    /\ events = [u \in Updates |-> <<>>]
    /\ chat = {}
    /\ next_id = [c \in Chats |-> 1]

\* the dispatcher hands an update "/generate a1 a2 ..." to generate_command
Receive(u) ==
    /\ pc[u] = "idle"
    /\ \E a \in ArgLists, c \in ChatsOf(u) :
        /\ args' = [args EXCEPT ![u] = a]
        /\ chat_id' = [chat_id EXCEPT ![u] = c]
    /\ pc' = [pc EXCEPT ![u] = "L86"]
    /\ UNCHANGED << status_msg, stats_text, img_bytes, caught, escaped,
                    events, chat, next_id >>

\* lines 86-88: too few arguments: the usage warning, then return
UsageReply(u) ==
    /\ pc[u] = "L86"
    /\ TooFewArgs(args[u])
    /\ \/ /\ SendOk(u, "L87", "reply_text", UsageText, NoImage)
          /\ pc' = [pc EXCEPT ![u] = "returned"]
          /\ UNCHANGED escaped
       \/ \E d \in SendFaults :
          /\ SendFail(u, "L87", "reply_text", UsageText, NoImage, d)
          /\ Raise(u, "L87", d)
    /\ UNCHANGED << args, chat_id, status_msg, stats_text, img_bytes, caught >>

\* lines 90-91: the status message; awaiting get_gemini_response hands
\* generate() to the executor (lines 76-77)
StatusReply(u) ==
    /\ pc[u] = "L86"
    /\ ~TooFewArgs(args[u])
    /\ \/ /\ SendOk(u, "L91", "reply_text", StatusText(Name(u)), NoImage)
          /\ status_msg' = [status_msg EXCEPT ![u] = next_id[chat_id[u]]]
          /\ pc' = [pc EXCEPT ![u] = "L57"]
          /\ UNCHANGED escaped
       \/ \E d \in SendFaults :
          /\ SendFail(u, "L91", "reply_text", StatusText(Name(u)), NoImage, d)
          /\ Raise(u, "L91", d)
          /\ UNCHANGED status_msg
    /\ UNCHANGED << args, chat_id, stats_text, img_bytes, caught >>

\* mutant of TextCall: generate() returns as soon as the text model raised,
\* without asking the image model
TextCall_ReturnsOnError(u) ==
    LET prompt == Prompt(Name(u), Element(u), Rarity(u))
    IN  /\ pc[u] = "L57"
        /\ \/ \E pad \in Paddings :
              /\ stats_text' =
                    [stats_text EXCEPT ![u] = Strip(ResponseText(prompt, pad))]
              /\ Log(u, Event("L57", "TEXT_MODEL", prompt, NoImage, TRUE, "", 0, chat_id[u]))
              /\ pc' = [pc EXCEPT ![u] = "L65"]
           \/ \E d \in TextFaults :
              /\ stats_text' = [stats_text EXCEPT ![u] = ErrorText(d)]
              /\ Log(u, Event("L57", "TEXT_MODEL", prompt, NoImage, FALSE, d, 0, chat_id[u]))
              /\ pc' = [pc EXCEPT ![u] = "L96"]
        /\ UNCHANGED << args, chat_id, status_msg, img_bytes, caught, escaped,
                        chat, next_id >>

\* lines 55-60, on the worker thread: the text model is asked once
TextCall(u) ==
    LET prompt == Prompt(Name(u), Element(u), Rarity(u))
    IN  /\ pc[u] = "L57"
        /\ \/ \E pad \in Paddings :
              /\ stats_text' =
                    [stats_text EXCEPT ![u] = Strip(ResponseText(prompt, pad))]
              /\ Log(u, Event("L57", "TEXT_MODEL", prompt, NoImage, TRUE, "", 0, chat_id[u]))
           \/ \E d \in TextFaults :
              /\ stats_text' = [stats_text EXCEPT ![u] = ErrorText(d)]
              /\ Log(u, Event("L57", "TEXT_MODEL", prompt, NoImage, FALSE, d, 0, chat_id[u]))
        /\ pc' = [pc EXCEPT ![u] = "L65"]
        /\ UNCHANGED << args, chat_id, status_msg, img_bytes, caught, escaped,
                        chat, next_id >>

\* mutant of ImageCall: img_bytes is assigned before img.save, so a failed
\* encoding leaves the buffer behind
ImageCall_KeepsBuffer(u) ==
    LET img_prompt == ImagePrompt(Name(u), Element(u))
    IN  /\ pc[u] = "L65"
        /\ \/ /\ img_bytes' = [img_bytes EXCEPT ![u] = BytesIO(img_prompt)]
              /\ Log(u, Event("L65", "IMAGE_MODEL", img_prompt, NoImage, TRUE, "", 0, chat_id[u]))
           \/ \E site \in ImageFaultSites, d \in ImageFaults :
              /\ img_bytes' = [img_bytes EXCEPT ![u] =
                                  IF site = "L68" THEN BytesIO(img_prompt) ELSE NoImage]
              /\ Log(u, Event(site, "IMAGE_MODEL", img_prompt, NoImage, FALSE, d, 0, chat_id[u]))
        /\ pc' = [pc EXCEPT ![u] = "L96"]
        /\ UNCHANGED << args, chat_id, status_msg, stats_text, caught, escaped,
                        chat, next_id >>

\* lines 62-74, on the worker thread: the image model is asked once; the
\* call (65), the indexing of parts (66) and the PNG encoding (68) can raise
ImageCall(u) ==
    LET img_prompt == ImagePrompt(Name(u), Element(u))
    IN  /\ pc[u] = "L65"
        /\ \/ /\ img_bytes' = [img_bytes EXCEPT ![u] = BytesIO(img_prompt)]
              /\ Log(u, Event("L65", "IMAGE_MODEL", img_prompt, NoImage, TRUE, "", 0, chat_id[u]))
           \/ \E site \in ImageFaultSites, d \in ImageFaults :
              /\ img_bytes' = [img_bytes EXCEPT ![u] = NoImage]
              /\ Log(u, Event(site, "IMAGE_MODEL", img_prompt, NoImage, FALSE, d, 0, chat_id[u]))
        /\ pc' = [pc EXCEPT ![u] = "L96"]
        /\ UNCHANGED << args, chat_id, status_msg, stats_text, caught, escaped,
                        chat, next_id >>

\* mutant of HasImage: the test is inverted
HasImage_Inverted(img) == img = NoImage

\* line 96: "if img_bytes:"; None is falsy, a BytesIO object is truthy
HasImage(img) == img # NoImage

\* mutant of ReplyPhoto: the call is outside the try block, its exception
\* leaves generate_command
ReplyPhoto_Unguarded(u) ==
    /\ pc[u] = "L96"
    /\ HasImage(img_bytes[u])
    /\ \/ /\ SendOk(u, "L97", "reply_photo", stats_text[u], img_bytes[u])
          /\ pc' = [pc EXCEPT ![u] = "L104"]
          /\ UNCHANGED escaped
       \/ \E d \in SendFaults :
          /\ SendFail(u, "L97", "reply_photo", stats_text[u], img_bytes[u], d)
          /\ Raise(u, "L97", d)
    /\ UNCHANGED << args, chat_id, status_msg, stats_text, img_bytes, caught >>

\* lines 96-97: an image is there: one photo with the stats as caption
ReplyPhoto(u) ==
    /\ pc[u] = "L96"
    /\ HasImage(img_bytes[u])
    /\ \/ /\ SendOk(u, "L97", "reply_photo", stats_text[u], img_bytes[u])
          /\ pc' = [pc EXCEPT ![u] = "L104"]
          /\ UNCHANGED caught
       \/ \E d \in SendFaults :
          /\ SendFail(u, "L97", "reply_photo", stats_text[u], img_bytes[u], d)
          /\ caught' = [caught EXCEPT ![u] = [site |-> "L97", detail |-> d]]
          /\ pc' = [pc EXCEPT ![u] = "L102"]
    /\ UNCHANGED << args, chat_id, status_msg, stats_text, img_bytes, escaped >>

\* mutant of ReplyText: the handler returns right after the text reply
ReplyText_EarlyReturn(u) ==
    /\ pc[u] = "L96"
    /\ ~HasImage(img_bytes[u])
    /\ \/ /\ SendOk(u, "L99", "reply_text", stats_text[u], NoImage)
          /\ pc' = [pc EXCEPT ![u] = "returned"]
          /\ UNCHANGED caught
       \/ \E d \in SendFaults :
          /\ SendFail(u, "L99", "reply_text", stats_text[u], NoImage, d)
          /\ caught' = [caught EXCEPT ![u] = [site |-> "L99", detail |-> d]]
          /\ pc' = [pc EXCEPT ![u] = "L102"]
    /\ UNCHANGED << args, chat_id, status_msg, stats_text, img_bytes, escaped >>

\* lines 98-99: no image: the stats as a plain message
ReplyText(u) ==
    /\ pc[u] = "L96"
    /\ ~HasImage(img_bytes[u])
    /\ \/ /\ SendOk(u, "L99", "reply_text", stats_text[u], NoImage)
          /\ pc' = [pc EXCEPT ![u] = "L104"]
          /\ UNCHANGED caught
       \/ \E d \in SendFaults :
          /\ SendFail(u, "L99", "reply_text", stats_text[u], NoImage, d)
          /\ caught' = [caught EXCEPT ![u] = [site |-> "L99", detail |-> d]]
          /\ pc' = [pc EXCEPT ![u] = "L102"]
    /\ UNCHANGED << args, chat_id, status_msg, stats_text, img_bytes, escaped >>

\* lines 101-102: the handler of the try block
CriticalReply(u) ==
    /\ pc[u] = "L102"
    /\ \/ /\ SendOk(u, "L102", "reply_text", CriticalText(caught[u].detail), NoImage)
          /\ pc' = [pc EXCEPT ![u] = "L104"]
          /\ UNCHANGED escaped
       \/ \E d \in SendFaults :
          /\ SendFail(u, "L102", "reply_text", CriticalText(caught[u].detail), NoImage, d)
          /\ Raise(u, "L102", d)
    /\ UNCHANGED << args, chat_id, status_msg, stats_text, img_bytes, caught >>

\* mutant of StatusToDelete: the newest message of the chat is deleted
StatusToDelete_Latest(u) ==
    [chat_id |-> chat_id[u], message_id |-> next_id[chat_id[u]] - 1]

\* line 104: the message the handler asks Telegram to delete
StatusToDelete(u) == [chat_id |-> chat_id[u], message_id |-> status_msg[u]]

\* line 104: delete_message, outside the try block
DeleteStatus(u) ==
    LET m == StatusToDelete(u)
        there == { x \in chat : x.chat_id = m.chat_id /\ x.message_id = m.message_id }
    IN  /\ pc[u] = "L104"
        /\ \/ /\ there # {}
              /\ chat' = chat \ there
              /\ Log(u, Event("L104", "delete_message", <<>>, NoImage, TRUE, "", m.message_id, m.chat_id))
              /\ pc' = [pc EXCEPT ![u] = "returned"]
              /\ UNCHANGED escaped
           \/ \E d \in DeleteFaults :
              /\ Log(u, Event("L104", "delete_message", <<>>, NoImage, FALSE, d, m.message_id, m.chat_id))
              /\ Raise(u, "L104", d)
              /\ UNCHANGED chat
        /\ UNCHANGED << args, chat_id, status_msg, stats_text, img_bytes, caught,
                        next_id >>

Next ==
    \E u \in Updates :
        \/ Receive(u)
        \/ UsageReply(u)
        \/ StatusReply(u)
        \/ TextCall(u)
        \/ ImageCall(u)
        \/ ReplyPhoto(u)
        \/ ReplyText(u)
        \/ CriticalReply(u)
        \/ DeleteStatus(u)

Spec == Init /\ [][Next]_vars

\* =================================================================== claims
\* the indices of the calls an update made from the given source lines
At(u, lines) == { i \in DOMAIN events[u] : events[u][i].line \in lines }

\* generate_command has returned or raised
Finished(u) == pc[u] \in { "returned", "raised" }

\* the two reply calls of step 3 (photo at line 97, text at line 99)
ContentLines == { "L97", "L99" }

ImageLines == { "L65", "L66", "L68" }

\* the image model returned an image and it was encoded
ImageReturned(u) ==
    \E i \in At(u, ImageLines) : events[u][i].ok

\* some step of the image generation raised
ImageFailed(u) ==
    \E i \in At(u, ImageLines) : ~events[u][i].ok

\* ----------------------------------------------------------------------- C1
\* C1 (as claimed): for every update whose status message was sent, by the
\* time generate_command finishes exactly one status message was created and
\* its deletion was attempted exactly once, whatever branch was taken.
C1_StatusDeletedExactlyOnce ==
    \A u \in Updates :
        (Finished(u) /\ status_msg[u] # 0) =>
            /\ Cardinality(At(u, { "L91" })) = 1
            /\ Cardinality(At(u, { "L104" })) = 1

\* ----------------------------------------------------------------------- C2
\* C2 (as claimed): when delete_message raises, generate_command swallows the
\* failure: it returns normally, nothing escapes it, and the failed deletion
\* is the last call it makes.
C2_DeleteFailureIgnored ==
    \A u \in Updates :
        \A i \in At(u, { "L104" }) :
            ~events[u][i].ok =>
                /\ pc[u] = "returned"
                /\ escaped[u] = NoException
                /\ i = Len(events[u])

\* ----------------------------------------------------------------------- C3
\* C3: an update with fewer than 3 arguments makes exactly one call, the
\* usage warning of line 87, and nothing else: neither model is asked, no
\* status message is sent, nothing is deleted.
C3_TooFewArgsOnlyUsage ==
    \A u \in Updates :
        (pc[u] # "idle" /\ Len(args[u]) < 3) =>
            /\ pc[u] \in { "L86", "returned", "raised" }
            /\ Len(events[u]) = (IF Finished(u) THEN 1 ELSE 0)
            /\ \A i \in DOMAIN events[u] :
                  /\ events[u][i].line = "L87"
                  /\ events[u][i].op = "reply_text"
                  /\ events[u][i].text = << "Usage: /generate [Name] [Element] [Rarity]" >>
            /\ status_msg[u] = 0

C3_Witness ==
    \E u \in Updates :
        /\ pc[u] = "returned"
        /\ Len(args[u]) = 2
        /\ Len(events[u]) = 1
        /\ events[u][1].ok

\* ----------------------------------------------------------------------- C4
\* every reply call the update made returned
SendsSucceeded(u) ==
    \A i \in DOMAIN events[u] :
        events[u][i].op \in { "reply_text", "reply_photo" } => events[u][i].ok

\* C4: a valid update whose sends succeed makes exactly one content reply;
\* with an image it is a photo whose caption is the stats text, without one
\* it is a text message equal to the stats text; never both.
C4_ReplyShape ==
    \A u \in Updates :
        /\ Cardinality(At(u, ContentLines)) <= 1
        /\ (/\ Len(args[u]) >= 3
            /\ pc[u] \in { "L104", "returned", "raised" }
            /\ SendsSucceeded(u)) =>
                /\ Cardinality(At(u, ContentLines)) = 1
                /\ \A i \in At(u, ContentLines) :
                    LET e == events[u][i] IN
                    /\ e.text = stats_text[u]
                    /\ ImageReturned(u) =>
                          /\ e.op = "reply_photo"
                          /\ e.photo.kind = "BytesIO"
                          /\ e.photo = img_bytes[u]
                    /\ ~ImageReturned(u) =>
                          /\ e.op = "reply_text"
                          /\ e.photo = NoImage
                    /\ [chat_id |-> chat_id[u], message_id |-> e.id,
                        text |-> stats_text[u], photo |-> e.photo] \in chat

C4_Witness ==
    \E u \in Updates :
        /\ pc[u] = "returned"
        /\ ImageReturned(u)
        /\ \E i \in At(u, { "L97" }) :
              /\ events[u][i].ok
              /\ events[u][i].text =
                    << "Name: ", "Pyro", "\nElement: ", "Fire", "\nRarity: ", "Epic" >>

\* ----------------------------------------------------------------------- C5
\* C5: when the text model raises with detail d, the stats text is
\* "Error generating text: d"; that is what every content reply (text or
\* photo caption) carries, and d reaches neither the handler of line 101
\* nor the caller of generate_command.
C5_TextFaultAbsorbed ==
    \A u \in Updates :
        \A i \in At(u, { "L57" }) :
            ~events[u][i].ok =>
                LET d == events[u][i].err IN
                /\ stats_text[u] = << "Error generating text: ", d >>
                /\ \A j \in At(u, ContentLines) :
                      /\ j > i
                      /\ events[u][j].text = << "Error generating text: ", d >>
                      /\ events[u][j].ok =>
                            [chat_id |-> chat_id[u], message_id |-> events[u][j].id,
                             text |-> << "Error generating text: ", d >>,
                             photo |-> events[u][j].photo] \in chat
                /\ \A j \in At(u, { "L102" }) :
                      events[u][j].text # << "Critical Error: ", d >>
                /\ caught[u].detail # d
                /\ escaped[u].detail # d

C5_Witness ==
    \E u \in Updates :
        /\ pc[u] = "returned"
        /\ \E i \in At(u, { "L57" }) :
              ~events[u][i].ok /\ events[u][i].err = "timeout"
        /\ \E j \in At(u, { "L97" }) :
              /\ events[u][j].ok
              /\ events[u][j].text = << "Error generating text: ", "timeout" >>

\* ----------------------------------------------------------------------- C6
\* what holds of an update whose image generation failed, whether or not the
\* text reply could be sent
ImageFaultDegrades(u) ==
    /\ img_bytes[u] = NoImage
    /\ At(u, { "L97" }) = {}
    /\ pc[u] \notin { "L65", "L96" } =>
          /\ Cardinality(At(u, { "L99" })) = 1
          /\ \A i \in At(u, { "L99" }) :
                /\ events[u][i].op = "reply_text"
                /\ events[u][i].text = stats_text[u]
    /\ caught[u].site \notin ImageLines
    /\ escaped[u].site \notin ImageLines

\* C6 (as claimed): whenever the image generation fails, there is one
\* text-only reply equal to the stats text, no photo reply, and no Critical
\* Error reply.
C6_ImageFaultNoCritical ==
    \A u \in Updates :
        ImageFailed(u) =>
            /\ ImageFaultDegrades(u)
            /\ At(u, { "L102" }) = {}

\* C6 (amended): whenever the image generation fails, there is one text-only
\* reply equal to the stats text and no photo reply; a Critical Error reply
\* follows only if sending that text reply raised, and reports that failure.
C6_ImageFaultTextOnly ==
    \A u \in Updates :
        ImageFailed(u) =>
            /\ ImageFaultDegrades(u)
            /\ \A j \in At(u, { "L102" }) :
                  \E i \in At(u, { "L99" }) :
                      /\ ~events[u][i].ok
                      /\ events[u][j].text = << "Critical Error: ", events[u][i].err >>

C6_Witness ==
    \E u \in Updates :
        /\ pc[u] = "returned"
        /\ \E i \in At(u, { "L66" }) : ~events[u][i].ok
        /\ \E i \in At(u, { "L99" }) : events[u][i].ok
        /\ Len(events[u]) = 5

\* ----------------------------------------------------------------------- C7
\* C7: when sending the photo or text reply raises with detail d, the
\* exception is caught at line 101: the very next call is the one reply
\* "Critical Error: d", and the exception does not leave generate_command.
C7_CriticalErrorReported ==
    \A u \in Updates :
        /\ \A i \in At(u, ContentLines) :
              ~events[u][i].ok =>
                  /\ escaped[u].site \notin ContentLines
                  /\ pc[u] \in { "L102", "L104", "returned", "raised" }
                  /\ pc[u] = "L102" =>
                        /\ caught[u].detail = events[u][i].err
                        /\ i = Len(events[u])
                  /\ pc[u] # "L102" =>
                        /\ At(u, { "L102" }) = { i + 1 }
                        /\ events[u][i + 1].op = "reply_text"
                        /\ events[u][i + 1].text =
                              << "Critical Error: ", events[u][i].err >>
        /\ \A j \in At(u, { "L102" }) :
              j - 1 \in At(u, ContentLines) /\ ~events[u][j - 1].ok

C7_Witness ==
    \E u \in Updates :
        /\ pc[u] = "returned"
        /\ \E i \in At(u, { "L97" }) :
              /\ ~events[u][i].ok
              /\ events[u][i + 1].ok
              /\ events[u][i + 1].text = << "Critical Error: ", "BadRequest" >>

\* ----------------------------------------------------------------------- C8
\* the state of the request state machine an update is in:
\* 0 Idle, 1 StatusSent, 2 GeneratingStats&Image, 3 Replied, 4 StatusDeleted;
\* 5 when generate_command was left by an exception before deleting
Stage(u) ==
    CASE pc[u] \in { "idle", "L86" } -> 0
      [] pc[u] = "L57" -> 1
      [] pc[u] \in { "L65", "L96" } -> 2
      [] pc[u] \in { "L102", "L104" } -> 3
      [] pc[u] = "returned" -> 4
      [] pc[u] = "raised" -> IF escaped[u].site = "L104" THEN 4 ELSE 5

\* the order of the calls of one update
CallsInOrder(u) ==
    \A i \in DOMAIN events[u] :
        LET e == events[u][i] IN
        /\ e.op \in { "TEXT_MODEL", "IMAGE_MODEL" } =>
              \E j \in At(u, { "L91" }) : j < i /\ events[u][j].ok
        /\ e.line \in { "L97", "L99", "L102" } =>
              /\ \E j \in At(u, { "L57" }) : j < i
              /\ \E j \in At(u, ImageLines) : j < i
        /\ e.line = "L104" =>
              \E j \in At(u, { "L97", "L99", "L102" }) : j < i /\ events[u][j].ok

StageStep ==
    \A u \in Updates :
        Len(args'[u]) >= 3 => Stage(u)' \in { Stage(u), Stage(u) + 1, 5 }

\* C8: a valid update goes through Idle, StatusSent, Generating, Replied,
\* StatusDeleted in that order, one state at a time and never back: the
\* status message is sent before either model is asked, both models have
\* answered before any reply is sent, and the deletion comes after a reply.
C8_StateMachine ==
    /\ [](\A u \in Updates : CallsInOrder(u))
    /\ [][StageStep]_vars

C8_Witness ==
    \E u \in Updates :
        /\ pc[u] = "returned"
        /\ Len(events[u]) = 5
        /\ events[u][1].line = "L91"
        /\ events[u][2].line = "L57"
        /\ events[u][3].line = "L65"
        /\ events[u][4].line = "L97"
        /\ events[u][5].line = "L104"

\* ----------------------------------------------------------------------- C9
\* what the calls of update u must carry, from its own arguments alone
OwnPrompt(u) ==
    << "SYSTEM_PROMPT", "\n\nUSER INPUT -> Name: ", args[u][1],
       ", Element: ", args[u][2], ", Rarity: ", args[u][3] >>

OwnImagePrompt(u) ==
    << "Generate a image of ", args[u][2], " ", args[u][1],
       " monster, Quality - 4k, Ratio - 1:1" >>

OwnStats(u) ==
    { << "Name: ", args[u][1], "\nElement: ", args[u][2], "\nRarity: ", args[u][3] >> }
        \cup { << "Error generating text: ", d >> : d \in TextFaults }

OwnCalls(u) ==
    \A i \in DOMAIN events[u] :
        LET e == events[u][i] IN
        /\ e.chat_id = chat_id[u]
        /\ e.op = "TEXT_MODEL" => e.text = OwnPrompt(u)
        /\ e.op = "IMAGE_MODEL" => e.text = OwnImagePrompt(u)
        /\ e.line \in ContentLines =>
              /\ e.text \in OwnStats(u)
              /\ e.op = "reply_photo" =>
                    e.photo = [kind |-> "BytesIO", prompt |-> OwnImagePrompt(u), pos |-> 0]
              /\ e.ok =>
                    [chat_id |-> chat_id[u], message_id |-> e.id,
                     text |-> e.text, photo |-> e.photo] \in chat
        /\ e.line = "L104" =>
              /\ e.id = status_msg[u]
              /\ \E j \in At(u, { "L91" }) :
                    events[u][j].ok /\ events[u][j].id = e.id

\* the status message of u stands until u itself deletes it
OwnStatusStands(u) ==
    (status_msg[u] # 0 /\ ~\E i \in At(u, { "L104" }) : events[u][i].ok) =>
        [chat_id |-> chat_id[u], message_id |-> status_msg[u],
         text |-> << "Summoning ", args[u][1], "..." >>, photo |-> NoImage] \in chat

\* C9: updates in flight at once do not interfere: each one's calls go to
\* its own chat and carry the text and image made from its own arguments,
\* and each deletes only the status message it created.
C9_Independent ==
    \A u \in Updates : OwnCalls(u) /\ OwnStatusStands(u)

\* two updates for different monsters overlap in one chat: the second's
\* status message was sent before the first replied, and the first is done
C9_Witness ==
    \E u, v \in Updates :
        /\ u # v
        /\ chat_id[u] = chat_id[v]
        /\ pc[u] = "returned" /\ pc[v] = "L104"
        /\ Len(args[u]) >= 3 /\ Len(args[v]) >= 3
        /\ args[u][1] # args[v][1]
        /\ \E i \in At(u, ContentLines) :
              events[u][i].ok /\ status_msg[v] < events[u][i].id
        /\ status_msg[u] < status_msg[v]

\* ---------------------------------------------------------------------- C10
ModelCalls(u, op) == { i \in DOMAIN events[u] : events[u][i].op = op }

\* C10 (as claimed): every valid update asks the text model exactly once
\* and the image model exactly once.
C10_EveryValidUpdateGenerates ==
    \A u \in Updates :
        (Finished(u) /\ Len(args[u]) >= 3) =>
            /\ Cardinality(ModelCalls(u, "TEXT_MODEL")) = 1
            /\ Cardinality(ModelCalls(u, "IMAGE_MODEL")) = 1

\* C10 (amended): every valid update whose status message was sent asks the
\* text model exactly once and the image model exactly once, without retry,
\* and asks the image model also when the text model failed.
C10_GeneratesOncePerStatus ==
    \A u \in Updates :
        /\ Cardinality(ModelCalls(u, "TEXT_MODEL")) <= 1
        /\ Cardinality(ModelCalls(u, "IMAGE_MODEL")) <= 1
        /\ (status_msg[u] # 0 /\ pc[u] \notin { "L57", "L65" }) =>
              /\ Cardinality(ModelCalls(u, "TEXT_MODEL")) = 1
              /\ Cardinality(ModelCalls(u, "IMAGE_MODEL")) = 1
        /\ status_msg[u] = 0 =>
              ModelCalls(u, "TEXT_MODEL") \cup ModelCalls(u, "IMAGE_MODEL") = {}

C10_Witness ==
    \E u \in Updates :
        /\ Finished(u)
        /\ \E i \in ModelCalls(u, "TEXT_MODEL") : ~events[u][i].ok
        /\ \E i \in ModelCalls(u, "IMAGE_MODEL") : ~events[u][i].ok

====
